---- MODULE Spec2Model ----
(***************************************************************************)
(* AutoSomnia: the Account and Exchange transaction engines.               *)
(*                                                                         *)
(* A request is a sequence of local computations separated by awaited      *)
(* JSON-RPC calls; every await is one step of the request (one action),    *)
(* followed by the local code that runs up to the next await.  The chain   *)
(* node is the environment: it holds balances, nonces and the quoted gas   *)
(* price, and answers every call with a value or with a failure.           *)
(*                                                                         *)
(* Amounts.  A wei (or token base unit) amount is a record [hi, lo] that   *)
(* stands for hi * 10^DecimalPrec + lo, with lo small: the model follows   *)
(* amounts near 0 and near 10^28, the two sides of the precision of        *)
(* Python's decimal context, which TLC's 32-bit integers cannot reach.     *)
(* A Decimal number of ETH is kept as its value in wei (the exponent       *)
(* shift by 18 changes no digit); the rounding Decimal arithmetic applies  *)
(* to a result is DecRound.  Requests ask for whole numbers of wei.        *)
(***************************************************************************)
EXTENDS Integers, Sequences, FiniteSets, TLC

\* ---------------------------------------------------------------- bounds
MaxBalance == 3
MaxBigLow == 1
MaxTokenBalance == 1
MaxGasLimit == 2
MaxGasPrice == 2
MaxAmount == 3
MaxPathLen == 2
MaxTokens == 3
MaxEnvSteps == 1
MaxAllowance == 1
MaxPolls == 3
MaxRequests == 4

\* Significant digits of Python's default decimal context (decimal.getcontext().prec),
\* in force for every Decimal operation of the services.
DecimalPrec == 28
\* ERC-20 decimals accepted by the TokenBalance model.
MaxDecimals == 77

\* ------------------------------------------------------------ wei amounts
W(n) == [hi |-> 0, lo |-> n]
Big(n) == [hi |-> 1, lo |-> n]

WLess(a, b) == a.hi < b.hi \/ (a.hi = b.hi /\ a.lo < b.lo)
WLeq(a, b) == a = b \/ WLess(a, b)
WAdd(a, b) == [hi |-> a.hi + b.hi, lo |-> a.lo + b.lo]
WSub(a, b) == [hi |-> a.hi - b.hi, lo |-> a.lo - b.lo]

\* Round half even to a multiple of ten (n >= 0): the last digit is dropped.
RoundHalfEven10(n) ==
    LET q == n \div 10
        r == n % 10
    IN  IF r < 5 THEN 10 * q
        ELSE IF r > 5 THEN 10 * (q + 1)
        ELSE IF q % 2 = 0 THEN 10 * q ELSE 10 * (q + 1)

\* The result of a Decimal operation, rounded to DecimalPrec significant digits:
\* 10^28 + lo (lo >= 0) has 29 digits and loses its last one; amounts below
\* 10^28 in absolute value are exact.
DecRound(a) ==
    IF a.hi = 1 /\ a.lo >= 0 THEN [hi |-> 1, lo |-> RoundHalfEven10(a.lo)]
    ELSE IF a.hi = -1 /\ a.lo <= 0 THEN [hi |-> -1, lo |-> -RoundHalfEven10(-a.lo)]
    ELSE a

\* _wei_to_eth: Decimal(wei_amount) / Decimal(10**18).
wei_to_eth(w) == DecRound(w)

\* _eth_to_wei: int(eth_amount * Decimal(10**18)).
eth_to_wei(e) == DecRound(e)

\* Decimal subtraction and the comparison with 0 (the route's max_amount <= 0).
DecSub(a, b) == DecRound(WSub(a, b))
DecIsPositive(a) == WLess(W(0), a)

\* ------------------------------------------------------------------ state
\* chain: the node's view: balance and tokenBalance (raw) per address, nonce per
\*        address, the quoted gas price, the accepted transactions in order.
\* op:    per request, its inputs, its position (pc) and its local variables.
\* env:   how many times the node's state changed under a running request.
VARIABLES chain, op, env, db
vars == <<chain, op, env, db>>

Procs == {"p1", "p2"}
Senders == {"a1", "a2"}
BadKey == "bad"

\* Account.from_key(private_key).address
\* Variant of AddressOf: every key signs for one address.
AddressOfShared(key) == "a1"

AddressOf(key) == IF key = "k2" THEN "a2" ELSE "a1"

\* Token addresses of a request: "T1" is the address of "t1" in another letter
\* case, "bad" is no address.  The token at "t2" reports more decimals than the
\* TokenBalance model takes.
TokenInputs == {"t1", "T1", "t2", "t3", "bad"}
Lower(a) ==
    IF a = "T1" THEN "t1" ELSE IF a = "T2" THEN "t2" ELSE IF a = "T3" THEN "t3"
    ELSE IF a = "A1" THEN "a1" ELSE IF a = "A2" THEN "a2" ELSE a

\* Web3.to_checksum_address: the EIP-55 form of an address, whose letters are
\* in the case its hash gives them ("T1" for "t1").
to_checksum_address(a) ==
    LET l == Lower(a)
    IN  IF l = "t1" THEN "T1" ELSE IF l = "t2" THEN "T2" ELSE IF l = "t3" THEN "T3"
        ELSE IF l = "a1" THEN "A1" ELSE IF l = "a2" THEN "A2" ELSE l
TokenDecimals(a) == IF Lower(a) = "t2" THEN MaxDecimals + 1 ELSE 18

\* gas_price: Optional[int] = None
NONE == 0

\* settings.GAS_LIMIT
GAS_LIMIT == 300000

GasCost(gasLimit, gasPrice) == gasLimit * gasPrice

NoTx == [from |-> "none", nonce |-> 0, value |-> W(0), gas |-> 0, gasPrice |-> 0,
         kind |-> "none", tokenAmount |-> W(0), pathLen |-> 2]

\* No EVMAccount and no TokenBalance (nothing built yet).
NoAccount == [address |-> "none", private_key |-> "none", balance |-> W(0), nonce |-> 0]
NoTokenBalance == [token_address |-> "none", balance |-> W(0), decimals |-> 0]

\* The document store behind the routes, before anything was stored: the
\* collections "user", "users", "accounts" and "gateways" hold no document.
\* nextId numbers the documents (_id); requests counts the requests served and
\* deleted remembers the users whose cascading deletion has completed.
EmptyDb ==
    [user |-> {}, users |-> {}, accounts |-> {}, gateways |-> {},
     nextId |-> 1, requests |-> 0, deleted |-> {}]

IdleOp ==
    [pc |-> "idle", kind |-> "none", route |-> "none", key |-> "k1",
     toOk |-> TRUE, token |-> "t1", addrsOk |-> TRUE, amountMax |-> FALSE, amount |-> 0,
     gasLimit |-> 1, gasPriceReq |-> NONE, pathLen |-> 2, ethValue |-> 0,
     tokens |-> <<>>, idx |-> 1, result |-> {}, succeeded |-> {},
     rBalanceWei |-> W(0), rBalance |-> W(0), rGasPrice |-> 0,
     amountToSend |-> W(0), amountWei |-> W(0),
     sBalance |-> W(0), sGasPrice |-> 0, tokBalance |-> W(0), decimals |-> 0,
     nonce |-> 0, tx |-> NoTx,
     rpc |-> 0, attempts |-> 0, sent |-> 0, stage |-> "none", returned |-> "none",
     receipt |-> -1, outcome |-> "none",
     owner |-> "a1", importKey |-> "none", mnemonic |-> "none", account |-> NoAccount,
     tb |-> NoTokenBalance, isContract |-> FALSE, caught |-> "none", polls |-> 0, amountIn |-> 0,
     qReq |-> <<>>, qCall |-> <<>>, qRet |-> W(0), amountB |-> W(0),
     http |-> 0, detail |-> <<>>,
     uid |-> 0, count |-> 0, afterDelete |-> FALSE, jwt |-> <<>>,
     expired |-> FALSE]

OffOp == [IdleOp EXCEPT !.pc = "off"]

Balances == {W(n) : n \in 0..MaxBalance} \cup {Big(n) : n \in 0..MaxBigLow}
TokenBalances == {W(n) : n \in 0..MaxTokenBalance} \cup {Big(MaxBigLow)}
GasPrices == 1..MaxGasPrice
GasLimits == 1..MaxGasLimit
Amounts == (-1)..MaxAmount

\* ---------------------------------------------------------------- helpers
\* An exception leaves the operation: the routes turn it into an error answer.
Failed(o, err) == [o EXCEPT !.pc = "done", !.outcome = err]

\* One more JSON-RPC call of the request.
Called(o) == [o EXCEPT !.rpc = @ + 1]

Set(p, o) == op' = [op EXCEPT ![p] = o]

\* A read of the node: it fails, or the request goes on with what it read.
Read(p, next) ==
    /\ UNCHANGED <<chain, env, db>>
    /\ \/ Set(p, Failed(Called(op[p]), "RpcUnavailable"))
       \/ Set(p, next)

\* ------------------------------------------------------------------- node
\* eth_sendRawTransaction: the node takes a transaction whose nonce is the
\* sender's next one and whose up-front cost the sender's balance covers.
NodeAccepts(tx) ==
    /\ tx.nonce = chain.nonce[tx.from]
    /\ WLeq(WAdd(tx.value, W(GasCost(tx.gas, tx.gasPrice))), chain.balance[tx.from])

\* The status a receipt of the transaction can have: a native transfer succeeds,
\* a token transfer succeeds when the balance covers it, the router reverts a
\* swap whose path has fewer than two tokens and otherwise decides by its pools.
\* The operations in which the router moves the sender's tokens by transferFrom,
\* and those that set the router's allowance.
TokenSpending == {"swapExactTokensForTokens", "swapExactTokensForETH",
                  "addLiquidity", "removeLiquidity"}
Approvals == {"approveToken", "approveRouterForToken"}

\* The allowance of the router after the transaction: an approve that succeeds
\* sets it, a transferFrom that succeeds uses it.
AllowanceAfter(allowance, tx, st) ==
    IF st = 0 THEN allowance
    ELSE IF tx.kind \in Approvals THEN tx.tokenAmount.lo
    ELSE IF tx.kind \in TokenSpending THEN allowance - tx.tokenAmount.lo
    ELSE allowance

ReceiptStatuses(tx) ==
    IF tx.kind = "sendNative" THEN {1}
    ELSE IF tx.kind = "sendToken"
         THEN (IF WLeq(tx.tokenAmount, chain.tokenBalance[tx.from]) THEN {1} ELSE {0})
    ELSE IF tx.pathLen < 2 THEN {0}
    ELSE IF tx.kind \in TokenSpending /\ chain.allowance[tx.from] < tx.tokenAmount.lo THEN {0}
    ELSE {0, 1}

Included(tx, st) ==
    LET paid == WSub(chain.balance[tx.from],
                     WAdd(tx.value, W(GasCost(tx.gas, tx.gasPrice))))
    IN  [chain EXCEPT
            !.nonce[tx.from] = @ + 1,
            !.balance[tx.from] = paid,
            !.tokenBalance[tx.from] =
                IF tx.kind = "sendToken" /\ st = 1 THEN WSub(@, tx.tokenAmount) ELSE @,
            !.allowance[tx.from] = AllowanceAfter(@, tx, st),
            !.txs = Append(@, [tx |-> tx, status |-> st,
                               allowed |-> chain.allowance[tx.from]])]

\* ------------------------------------------- AccountService.send_eth
\* Lines 487-497: the key and the recipient are checked, the amount converted.
EnterSendEth(o) ==
    IF o.key = BadKey THEN Failed(o, "InvalidKeyFormat")
    ELSE IF ~o.toOk THEN Failed(o, "InvalidAddress")
    ELSE [o EXCEPT !.pc = "s_balance", !.amountWei = eth_to_wei(o.amountToSend)]

\* Lines 508-511: the balance must cover the amount and the gas.
SendEthTotalCheck(o, gasPrice) ==
    LET total == WAdd(o.amountWei, W(GasCost(o.gasLimit, gasPrice)))
    IN  IF WLess(o.sBalance, total) THEN Failed(o, "InsufficientBalance")
        ELSE [o EXCEPT !.pc = "s_nonce", !.sGasPrice = gasPrice, !.stage = "validated"]

\* Lines 499-506: get_balance, then the first check and the gas price.
SendEthBalance(p) ==
    LET o == [Called(op[p]) EXCEPT !.sBalance = chain.balance[AddressOf(op[p].key)]]
    IN  /\ op[p].pc = "s_balance"
        /\ Read(p,
             IF WLess(o.sBalance, o.amountWei) THEN Failed(o, "InsufficientBalance")
             ELSE IF o.gasPriceReq # NONE THEN SendEthTotalCheck(o, o.gasPriceReq)
             ELSE [o EXCEPT !.pc = "s_gasprice"])

\* Line 506: gas_price = await self.w3.eth.gas_price
SendEthGasPrice(p) ==
    /\ op[p].pc = "s_gasprice"
    /\ Read(p,
             SendEthTotalCheck(Called(op[p]), chain.gasPrice))

\* sign_transaction: a negative value has no RLP encoding.
Signable(tx) == ~WLess(tx.value, W(0))

\* Variant of TxNonce: the count the node returned is not the nonce used.
TxNonceNext(count) == count + 1

\* The nonce a transaction is built with, from the count the node returned.
TxNonce(count) == count

\* Lines 514-527: the nonce is read, the transaction built and signed.
SendEthNonce(p) ==
    LET o == [Called(op[p]) EXCEPT !.nonce = chain.nonce[AddressOf(op[p].key)]]
        tx == [from |-> AddressOf(o.key), nonce |-> TxNonce(o.nonce),
               value |-> o.amountWei, gas |-> o.gasLimit, gasPrice |-> o.sGasPrice,
               kind |-> "sendNative", tokenAmount |-> W(0), pathLen |-> 2]
    IN  /\ op[p].pc = "s_nonce"
        /\ Read(p,
             IF Signable(tx) THEN [o EXCEPT !.pc = "s_send", !.tx = tx, !.stage = "signed"]
             ELSE Failed(o, "SigningError"))

\* What the route does once the service returned the hash (lines 423-439): the
\* gas price is read again when the request gave none, for the answer only.
AfterSend(o) ==
    IF o.gasPriceReq = NONE THEN [o EXCEPT !.pc = "r_final"]
    ELSE [o EXCEPT !.pc = "done", !.outcome = "ok"]

\* Variant of Broadcast: a transfer too waits for its receipt.
BroadcastThenWait(o) ==
    [o EXCEPT !.sent = @ + 1, !.stage = "broadcast", !.pc = "x_wait"]

\* The node took the transaction: send_eth and send_token return its hash; the
\* Exchange engine goes on to wait for the receipt.
Broadcast(o) ==
    LET b == [o EXCEPT !.sent = @ + 1, !.stage = "broadcast"]
    IN  IF o.kind \in {"sendNative", "sendToken"}
        THEN AfterSend([b EXCEPT !.returned = "hash"])
        ELSE [b EXCEPT !.pc = "x_wait"]

\* Variant of SendFailed: a failed broadcast is tried once more.
SendRetried(o, err) ==
    IF o.attempts < 2 THEN [o EXCEPT !.pc = "s_send"] ELSE Failed(o, err)

\* send_raw_transaction raised: the operation logs the error and raises it
\* again (send_eth lines 535-537).
SendFailed(o, err) == Failed(o, err)

\* send_raw_transaction (send_eth line 530, send_token line 619, and the
\* Exchange engine's operations).
SendRawTransaction(p) ==
    LET o == [Called(op[p]) EXCEPT !.attempts = @ + 1]
    IN  /\ op[p].pc = "s_send"
        /\ UNCHANGED <<env, db>>
        /\ \/ /\ Set(p, SendFailed(o, "RpcUnavailable"))
              /\ UNCHANGED chain
           \/ /\ NodeAccepts(o.tx)
              /\ \E st \in ReceiptStatuses(o.tx) : chain' = Included(o.tx, st)
              /\ Set(p, Broadcast(o))
           \/ /\ ~NodeAccepts(o.tx)
              /\ UNCHANGED chain
              /\ Set(p, SendFailed(o, "RpcError"))

\* ---------------------------------------------------- routes: send_eth
\* Lines 397-402 of the route: the MAX amount, from the balance and the gas price.
MaxSendable(balance, gasLimit, gasPrice) ==
    DecSub(balance, wei_to_eth(W(GasCost(gasLimit, gasPrice))))

\* Lines 404-410: nothing is left to send when the gas takes the balance.
RouteMaxEth(o, gasPrice) ==
    LET max_amount == MaxSendable(o.rBalance, o.gasLimit, gasPrice)
        r == [o EXCEPT !.rGasPrice = gasPrice, !.amountToSend = max_amount]
    IN  IF ~DecIsPositive(max_amount) THEN Failed(r, "InsufficientFundsForGas")
        ELSE EnterSendEth(r)

\* balance = await service.get_eth_balance(sender_address): get_eth_balance
\* reads balance_wei and returns _wei_to_eth(balance_wei).
RouteEthBalance(p) ==
    LET balance_wei == chain.balance[AddressOf(op[p].key)]
        o == [Called(op[p]) EXCEPT !.rBalanceWei = balance_wei,
                                   !.rBalance = wei_to_eth(balance_wei)]
    IN  /\ op[p].pc = "r_balance"
        /\ Read(p,
             IF o.gasPriceReq # NONE THEN RouteMaxEth(o, o.gasPriceReq)
             ELSE [o EXCEPT !.pc = "r_gasprice"])

\* gas_price = await service.w3.eth.gas_price
RouteEthGasPrice(p) ==
    /\ op[p].pc = "r_gasprice"
    /\ Read(p,
             RouteMaxEth(Called(op[p]), chain.gasPrice))

\* final_gas_price = await service.w3.eth.gas_price
RouteFinalGasPrice(p) ==
    /\ op[p].pc = "r_final"
    /\ Read(p,
             [Called(op[p]) EXCEPT !.pc = "done", !.outcome = "ok"])

\* The sender's address: the account route asks the service object for
\* get_address_from_private_key, which is a function of the module and no
\* method of AccountService; the gateway route calls the function.
RouteSender(o) ==
    IF o.route = "account" THEN Failed(o, "AttributeError")
    ELSE IF o.key = BadKey THEN Failed(o, "InvalidKeyFormat")
    ELSE o

\* POST /send-eth, up to its first await.
BeginSendEth(p, route, key, toOk, isMax, amount, gasLimit, gasPrice) ==
    LET o == RouteSender([op[p] EXCEPT !.kind = "sendNative", !.route = route,
                             !.key = key, !.toOk = toOk, !.amountMax = isMax,
                             !.amount = amount, !.gasLimit = gasLimit,
                             !.gasPriceReq = gasPrice])
    IN  Set(p, IF o.pc = "done" THEN o
               ELSE IF isMax THEN [o EXCEPT !.pc = "r_balance"]
               ELSE EnterSendEth([o EXCEPT !.amountToSend = W(amount)]))

StartSendEth(p) ==
    /\ op[p].pc = "idle"
    /\ UNCHANGED <<chain, env, db>>
    /\ \E route \in {"account", "gateway"}, key \in {"k1", BadKey}, toOk \in BOOLEAN,
          isMax \in BOOLEAN, amount \in Amounts, gasLimit \in GasLimits,
          gasPrice \in {NONE} \cup GasPrices :
          /\ isMax => amount = 0
          /\ BeginSendEth(p, route, key, toOk, isMax, amount, gasLimit, gasPrice)

\* ----------------------------------------- AccountService.send_token
\* Lines 563-577: the key, the recipient and the token address are checked.
EnterSendToken(o) ==
    IF o.key = BadKey THEN Failed(o, "InvalidKeyFormat")
    ELSE IF ~o.toOk \/ o.token = "bad" THEN Failed(o, "InvalidAddress")
    ELSE [o EXCEPT !.pc = "t_decimals"]

\* Line 580: decimals().call()
SendTokenDecimals(p) ==
    /\ op[p].pc = "t_decimals"
    /\ Read(p,
             [Called(op[p]) EXCEPT !.pc = "t_symbol", !.decimals = TokenDecimals(op[p].token)])

\* Lines 581-584: symbol().call(), then the amount in the token's base units:
\* int(amount * Decimal(10**decimals)).
SendTokenSymbol(p) ==
    /\ op[p].pc = "t_symbol"
    /\ Read(p,
             [Called(op[p]) EXCEPT !.pc = "t_balanceOf",
                               !.amountWei = DecRound(op[p].amountToSend)])

\* Variant of SendTokenBalanceCheck: the token balance is not compared.
SendTokenBalanceUnchecked(o) ==
    IF o.gasPriceReq # NONE
    THEN [o EXCEPT !.pc = "t_balance", !.sGasPrice = o.gasPriceReq]
    ELSE [o EXCEPT !.pc = "t_gasprice"]

\* Lines 588-594: the token balance must cover the amount; then the gas price
\* of the request, or the node's.
SendTokenBalanceCheck(o) ==
    IF WLess(o.tokBalance, o.amountWei) THEN Failed(o, "InsufficientBalance")
    ELSE IF o.gasPriceReq # NONE
         THEN [o EXCEPT !.pc = "t_balance", !.sGasPrice = o.gasPriceReq]
    ELSE [o EXCEPT !.pc = "t_gasprice"]

\* Line 587: balance_wei = await contract.functions.balanceOf(from_address).call()
SendTokenBalanceOf(p) ==
    /\ op[p].pc = "t_balanceOf"
    /\ Read(p, SendTokenBalanceCheck([Called(op[p]) EXCEPT
                    !.tokBalance = chain.tokenBalance[AddressOf(op[p].key)]]))

\* Line 594: gas_price = await self.w3.eth.gas_price
SendTokenGasPrice(p) ==
    /\ op[p].pc = "t_gasprice"
    /\ Read(p,
             [Called(op[p]) EXCEPT !.pc = "t_balance", !.sGasPrice = chain.gasPrice])

\* Lines 598-600: the native balance must cover the gas.
SendTokenGasCheck(o) ==
    IF WLess(o.sBalance, W(GasCost(o.gasLimit, o.sGasPrice)))
    THEN Failed(o, "InsufficientFundsForGas")
    ELSE [o EXCEPT !.pc = "t_nonce", !.stage = "validated"]

\* Line 597: eth_balance = await self.w3.eth.get_balance(from_address)
SendTokenEthBalance(p) ==
    /\ op[p].pc = "t_balance"
    /\ Read(p,
             SendTokenGasCheck([Called(op[p]) EXCEPT
                                !.sBalance = chain.balance[AddressOf(op[p].key)]]))

\* transfer(to, amount): the amount is a uint256.
Encodable(amount) == ~WLess(amount, W(0))

\* Lines 603-616: the nonce is read, the transfer built and signed.
SendTokenNonce(p) ==
    LET o == [Called(op[p]) EXCEPT !.nonce = chain.nonce[AddressOf(op[p].key)]]
        tx == [from |-> AddressOf(o.key), nonce |-> TxNonce(o.nonce),
               value |-> W(0), gas |-> o.gasLimit, gasPrice |-> o.sGasPrice,
               kind |-> "sendToken", tokenAmount |-> o.amountWei, pathLen |-> 2]
    IN  /\ op[p].pc = "t_nonce"
        /\ Read(p,
             IF Encodable(o.amountWei)
             THEN [o EXCEPT !.pc = "s_send", !.tx = tx, !.stage = "signed"]
             ELSE Failed(o, "EncodingError"))

\* ------------------------------------- AccountService.get_token_balance
\* Lines 312-320: the balance in token units, Decimal(balance_raw) /
\* Decimal(10**decimals), and the TokenBalance model, which refuses decimals
\* above 77.
TokenBalanceModel(raw, decimals) ==
    IF decimals > MaxDecimals THEN [ok |-> FALSE, balance |-> W(0)]
    ELSE [ok |-> TRUE, balance |-> DecRound(raw)]

\* Lines 456-465 of the send-token route: the MAX amount is the balance
\* get_token_balance returned; an empty balance is refused.
RouteMaxToken(o, balance) ==
    IF ~DecIsPositive(balance) THEN Failed(o, "NoTokens")
    ELSE EnterSendToken([o EXCEPT !.amountToSend = balance])

\* get_multiple_token_balances, lines 346-355: the next token of the list is
\* queried; get_token_balance checks both addresses before its first read
\* (lines 295-296), and the loop goes on after a failure.
RECURSIVE NextToken(_)
NextToken(o) ==
    IF o.idx > Len(o.tokens) THEN [o EXCEPT !.pc = "done", !.outcome = "ok"]
    ELSE IF ~o.addrsOk \/ o.tokens[o.idx] = "bad" THEN NextToken([o EXCEPT !.idx = @ + 1])
    ELSE [o EXCEPT !.pc = "q_balanceOf", !.token = o.tokens[o.idx]]

\* Lines 350-352: a token whose query raised is left out.
SkipToken(o) == NextToken([o EXCEPT !.idx = @ + 1])

\* Line 349: balances[token_address.lower()] = balance
BalanceKey(token) == Lower(token)

\* Variant of TokenQueryRaised: the loop lets the error through.
TokenQueryRaises(o) == Failed(o, "TokenQueryFailed")

\* get_token_balance raised: the loop of get_multiple_token_balances swallows
\* it, the send-token route answers with the error.
TokenQueryRaised(o) ==
    IF o.kind = "getTokenBalances" THEN SkipToken(o)
    ELSE Failed(o, "TokenQueryFailed")

\* TokenBalance.validate_token_address: the address get_token_balance passes
\* is the checksum form; the validator returns it in lower case.
TokenBalanceAddress(token) == Lower(to_checksum_address(token))

\* get_token_balance is through with its reads.
TokenQueryRead(o) ==
    LET tb == TokenBalanceModel(o.tokBalance, o.decimals)
    IN  IF ~tb.ok THEN TokenQueryRaised(o)
        ELSE IF o.kind = "getTokenBalance"
             THEN [o EXCEPT !.pc = "done", !.outcome = "ok",
                            !.tb = [token_address |-> TokenBalanceAddress(o.token),
                                    balance |-> tb.balance, decimals |-> o.decimals]]
        ELSE IF o.kind = "getTokenBalances"
             THEN NextToken([o EXCEPT !.result = @ \cup {BalanceKey(o.token)},
                                      !.succeeded = @ \cup {o.idx}, !.idx = @ + 1])
        ELSE RouteMaxToken(o, tb.balance)

\* A read of get_token_balance (lines 306-309).
TokenRead(p, next) ==
    /\ UNCHANGED <<chain, env, db>>
    /\ \/ Set(p, TokenQueryRaised(Called(op[p])))
       \/ Set(p, next)

QueryBalanceOf(p) ==
    /\ op[p].pc = "q_balanceOf"
    /\ TokenRead(p,
             [Called(op[p]) EXCEPT !.pc = "q_decimals",
                    !.tokBalance = chain.tokenBalance[AddressOf(op[p].key)]])

QueryDecimals(p) ==
    /\ op[p].pc = "q_decimals"
    /\ TokenRead(p,
             [Called(op[p]) EXCEPT !.pc = "q_symbol",
                    !.decimals = TokenDecimals(op[p].token)])

QuerySymbol(p) ==
    /\ op[p].pc = "q_symbol"
    /\ TokenRead(p, [Called(op[p]) EXCEPT !.pc = "q_name"])

QueryName(p) ==
    /\ op[p].pc = "q_name"
    /\ TokenRead(p, TokenQueryRead(Called(op[p])))

TokenLists == UNION {[1..n -> TokenInputs] : n \in 0..MaxTokens}

\* get_multiple_token_balances(address, token_addresses), up to its first await.
StartGetTokenBalances(p) ==
    /\ op[p].pc = "idle"
    /\ UNCHANGED <<chain, env, db>>
    /\ \E ownerOk \in BOOLEAN, tokens \in TokenLists :
          Set(p, NextToken([op[p] EXCEPT !.kind = "getTokenBalances",
                                         !.addrsOk = ownerOk, !.tokens = tokens]))

\* get_token_balance(address, token_address) called on its own: both
\* addresses are validated before the first read (lines 295-296).
StartGetTokenBalance(p) ==
    /\ op[p].pc = "idle"
    /\ UNCHANGED <<chain, env, db>>
    /\ \E owner \in {"a1", "A1", "bad"}, token \in TokenInputs :
          LET ok == owner # "bad" /\ token # "bad"
              o == [op[p] EXCEPT !.kind = "getTokenBalance", !.owner = owner,
                                 !.token = token, !.addrsOk = ok]
          IN  Set(p, IF ok THEN [o EXCEPT !.pc = "q_balanceOf"]
                     ELSE Failed(o, "InvalidAddress"))

\* ------------------------------------------------------------ EVMAccount
\* The private keys a caller can hold: "k1" and "k2" are 64 hexadecimal digits,
\* "" is the empty string, BadKey is any other malformed text.
KeyTexts == {"k1", "k2", "", BadKey}

\* EVMAccount.validate_private_key: the text is 64 hexadecimal digits.
validate_private_key(v) == v \in {"k1", "k2"}

\* The EVMAccount model: its address validator returns the address in lower
\* case, its key validator refuses what is not 64 hexadecimal digits, balance
\* and nonce are not negative.
EVMAccountModel(address, private_key, balance, nonce) ==
    [ok |-> /\ address # "bad"
            /\ validate_private_key(private_key)
            /\ ~WLess(balance, W(0))
            /\ nonce >= 0,
     account |-> [address |-> Lower(address), private_key |-> private_key,
                  balance |-> balance, nonce |-> nonce]]

\* ------------------------------------------ AccountService.create_account
\* The mnemonics Mnemonic("english").generate can give, and the key
\* Account.from_mnemonic derives from each.
Mnemonics == {"m1", "m2"}
KeyOfMnemonic(m) == IF m = "m2" THEN "k2" ELSE "k1"

\* Variant of CreateMnemonic: a mnemonic is made for an imported key too.
CreateMnemonicAlways(importKey, m) == m

\* Lines 181-196: mnemonic_phrase stays None when a key is imported.
CreateMnemonic(importKey, m) == IF importKey # "none" THEN "none" ELSE m

\* Lines 183-196: the key of the account, from the request or from the mnemonic.
CreateKey(importKey, m) == IF importKey # "none" THEN importKey ELSE KeyOfMnemonic(m)

\* AccountCreateRequest refuses an import key that is not 64 hexadecimal
\* digits; create_account derives the account before its first await.
StartCreateAccount(p) ==
    /\ op[p].pc = "idle"
    /\ UNCHANGED <<chain, env, db>>
    /\ \E importKey \in {"none", "k1", "k2", BadKey}, m \in Mnemonics :
          LET o == [op[p] EXCEPT !.kind = "createAccount", !.importKey = importKey]
          IN  Set(p, IF importKey = BadKey THEN Failed(o, "InvalidKeyFormat")
                     ELSE [o EXCEPT !.pc = "ca_balance",
                                    !.mnemonic = CreateMnemonic(importKey, m),
                                    !.key = CreateKey(importKey, m),
                                    !.owner = to_checksum_address(
                                                  AddressOf(CreateKey(importKey, m)))])

\* Lines 199-200: the balance of the derived address is read and converted.
CreateBalance(p) ==
    /\ op[p].pc = "ca_balance"
    /\ Read(p, [Called(op[p]) EXCEPT !.pc = "ca_nonce",
                   !.sBalance = chain.balance[Lower(op[p].owner)],
                   !.rBalance = wei_to_eth(chain.balance[Lower(op[p].owner)])])

\* Lines 201-215: the nonce is read, the EVMAccount built and returned with the
\* mnemonic.
CreateNonce(p) ==
    LET o == [Called(op[p]) EXCEPT !.nonce = chain.nonce[Lower(op[p].owner)]]
        m == EVMAccountModel(o.owner, o.key, o.rBalance, o.nonce)
    IN  /\ op[p].pc = "ca_nonce"
        /\ Read(p, IF m.ok THEN [o EXCEPT !.pc = "done", !.outcome = "ok",
                                          !.account = m.account]
                    ELSE Failed(o, "ValidationError"))

\* ----------------------------------- AccountService.get_account_portfolio
\* The owner addresses of the read-only operations: lower case, checksum
\* form, malformed.
OwnerInputs == {"a1", "A1", "bad"}

\* _validate_address (account_service.py): the checksum form of a well-formed
\* address.
ValidAddress(a) == a # "bad"

\* Line 379: the address is validated before the first read.
StartGetPortfolio(p) ==
    /\ op[p].pc = "idle"
    /\ UNCHANGED <<chain, env, db>>
    /\ \E owner \in OwnerInputs :
          LET o == [op[p] EXCEPT !.kind = "getPortfolio", !.owner = owner,
                                 !.addrsOk = ValidAddress(owner)]
          IN  Set(p, IF ValidAddress(owner)
                     THEN [o EXCEPT !.owner = to_checksum_address(owner),
                                    !.pc = "pf_balance"]
                     ELSE Failed(o, "InvalidAddress"))

\* Line 382: get_eth_balance reads the balance and converts it.
PortfolioBalance(p) ==
    /\ op[p].pc = "pf_balance"
    /\ Read(p, [Called(op[p]) EXCEPT !.pc = "pf_nonce",
                   !.sBalance = chain.balance[Lower(op[p].owner)],
                   !.rBalance = wei_to_eth(chain.balance[Lower(op[p].owner)])])

\* Line 389: the private key the portfolio puts in its wallet snapshot.
PortfolioKey == ""

\* Lines 384-393: the nonce is read and the EVMAccount built from the address,
\* the empty private key, the balance and the nonce. The model's validators
\* run on these values; what follows in the code (token balances, the latest
\* block, lines 396-408) runs only with an account that passed them.
PortfolioNonce(p) ==
    LET o == [Called(op[p]) EXCEPT !.nonce = chain.nonce[Lower(op[p].owner)]]
        m == EVMAccountModel(o.owner, PortfolioKey, o.rBalance, o.nonce)
    IN  /\ op[p].pc = "pf_nonce"
        /\ Read(p, IF m.ok THEN [o EXCEPT !.pc = "pf_tokens", !.account = m.account]
                    ELSE Failed(o, "ValidationError"))

\* ------------------------------------- AccountService.is_contract_address
\* The addresses is_contract_address is asked about: an account without code,
\* the same in checksum form, a token contract, a malformed text.
CodeInputs == {"a1", "A1", "t1", "bad"}

\* eth_getCode: the token contracts have code, the accounts none.
HasCode(a) == Lower(a) \in {"t1", "t2", "t3"}

\* Lines 757-759: except Exception: return False. The try block holds the
\* validation of the address and the read, so either error ends here.
IsContractCaught(o, err) ==
    [o EXCEPT !.pc = "done", !.outcome = "ok", !.isContract = FALSE, !.caught = err]

\* Line 753: the address is validated inside the try block.
StartIsContract(p) ==
    /\ op[p].pc = "idle"
    /\ UNCHANGED <<chain, env, db>>
    /\ \E a \in CodeInputs :
          LET o == [op[p] EXCEPT !.kind = "isContract", !.owner = a,
                                 !.addrsOk = ValidAddress(a)]
          IN  Set(p, IF ValidAddress(a) THEN [o EXCEPT !.pc = "ic_code"]
                     ELSE IsContractCaught(o, "InvalidAddress"))

\* Lines 754-755: code = await get_code(address); return len(code) > 0.
IsContractCode(p) ==
    /\ op[p].pc = "ic_code"
    /\ UNCHANGED <<chain, env, db>>
    /\ \/ Set(p, IsContractCaught(Called(op[p]), "RpcUnavailable"))
       \/ Set(p, [Called(op[p]) EXCEPT !.pc = "done", !.outcome = "ok",
                                       !.isContract = HasCode(op[p].owner)])

\* ---------------------------------------------------- routes: send_token
\* POST /send-token, up to its first await.
BeginSendToken(p, route, key, toOk, token, isMax, amount, gasLimit, gasPrice) ==
    LET o == RouteSender([op[p] EXCEPT !.kind = "sendToken", !.route = route,
                             !.key = key, !.toOk = toOk, !.token = token,
                             !.amountMax = isMax, !.amount = amount,
                             !.gasLimit = gasLimit, !.gasPriceReq = gasPrice])
    IN  Set(p, IF o.pc = "done" THEN o
               ELSE IF isMax
                    THEN (IF token = "bad" THEN Failed(o, "InvalidAddress")
                          ELSE [o EXCEPT !.pc = "q_balanceOf"])
               ELSE EnterSendToken([o EXCEPT !.amountToSend = W(amount)]))

StartSendToken(p) ==
    /\ op[p].pc = "idle"
    /\ UNCHANGED <<chain, env, db>>
    /\ \E route \in {"account", "gateway"}, key \in {"k1", BadKey}, toOk \in BOOLEAN,
          token \in {"t1", "t2", "bad"}, isMax \in BOOLEAN, amount \in Amounts,
          gasLimit \in GasLimits, gasPrice \in {NONE} \cup GasPrices :
          /\ isMax => amount = 0
          /\ BeginSendToken(p, route, key, toOk, token, isMax, amount, gasLimit, gasPrice)

\* ------------------------------------------------ SomniaExchangeService
ExchangeKinds == {"approveToken", "approveRouterForToken", "addLiquidity",
                  "removeLiquidity", "swapExactTokensForTokens",
                  "swapExactETHForTokens", "swapExactTokensForETH"}
SwapKinds == {"swapExactTokensForTokens", "swapExactETHForTokens",
              "swapExactTokensForETH"}

\* The code of an operation before its first await: swap_exact_tokens_for_tokens
\* checks the length of the path (lines 333-334); every operation passes its
\* addresses through _validate_address.
EnterExchange(o) ==
    IF o.kind = "swapExactTokensForTokens" /\ o.pathLen < 2
    THEN Failed(o, "InvalidSwapPath")
    ELSE IF ~o.addrsOk THEN Failed(o, "InvalidAddress")
    ELSE [o EXCEPT !.pc = "x_nonce", !.stage = "validated"]

\* "nonce": await self.w3.eth.get_transaction_count(from_address_checksum)
ExchangeNonce(p) ==
    /\ op[p].pc = "x_nonce"
    /\ Read(p,
             [Called(op[p]) EXCEPT !.pc = "x_gasprice",
                               !.nonce = chain.nonce[AddressOf(op[p].key)]])

\* "gasPrice": await self.w3.eth.gas_price
ExchangeGasPrice(p) ==
    /\ op[p].pc = "x_gasprice"
    /\ Read(p,
             [Called(op[p]) EXCEPT !.pc = "x_build", !.sGasPrice = chain.gasPrice])

\* The private key meets the operation after the transaction is built:
\* swap_exact_tokens_for_tokens passes it through _validate_private_key (line
\* 367), the other operations hand it to sign_transaction as it came.
ExchangeSign(o, tx) ==
    IF o.key = BadKey
    THEN Failed(o, IF o.kind = "swapExactTokensForTokens" THEN "InvalidKeyFormat"
                   ELSE "SigningError")
    ELSE [o EXCEPT !.pc = "s_send", !.tx = tx, !.stage = "signed"]

\* Variant of TxValue: the request's amount_in is attached as the value.
TxValueOfAmountIn(o) == W(o.amountIn)

\* The "value" of the transaction: swap_exact_eth_for_tokens gives eth_value
\* (line 416), the other operations give none and build_transaction puts 0.
TxValue(o) == W(IF o.kind = "swapExactETHForTokens" THEN o.ethValue ELSE 0)

\* The token amount in the call data: swap_exact_eth_for_tokens has no
\* amount_in parameter, its route leaves the request's amount_in out.
TokenAmount(o) == W(IF o.kind = "swapExactETHForTokens" THEN 0 ELSE o.amountIn)

\* build_transaction: the fields the operation gave are kept, the chain id is
\* asked of the node; then the transaction is signed.
ExchangeBuild(p) ==
    LET o == Called(op[p])
        tx == [from |-> AddressOf(o.key), nonce |-> TxNonce(o.nonce),
               value |-> TxValue(o),
               gas |-> GAS_LIMIT, gasPrice |-> o.sGasPrice,
               kind |-> o.kind, tokenAmount |-> TokenAmount(o), pathLen |-> o.pathLen]
    IN  /\ op[p].pc = "x_build"
        /\ Read(p,
             ExchangeSign(o, tx))

\* The receipt of a transaction the node took.
ReceiptOf(tx) == (CHOOSE i \in 1..Len(chain.txs) : chain.txs[i].tx = tx)

\* receipt = await self.w3.eth.wait_for_transaction_receipt(tx_hash); return
\* receipt.  The routes answer with the receipt's status as a field.
ExchangeWait(p) ==
    /\ op[p].pc = "x_wait"
    /\ UNCHANGED <<chain, env, db>>
    /\ \/ Set(p, Failed(Called(op[p]), "RpcUnavailable"))
       \/ Set(p, Failed(Called(op[p]), "TransactionTimeout"))
       \/ Set(p, [Called(op[p]) EXCEPT
                     !.pc = "done", !.outcome = "ok", !.returned = "receipt",
                     !.receipt = chain.txs[ReceiptOf(op[p].tx)].status])

StartExchange(p) ==
    /\ op[p].pc = "idle"
    /\ UNCHANGED <<chain, env, db>>
    /\ \E kind \in ExchangeKinds, key \in {"k1", BadKey}, addrsOk \in BOOLEAN,
          pathLen \in 0..MaxPathLen, ethValue \in 0..1, amountIn \in 0..MaxAllowance :
          /\ kind \notin SwapKinds => pathLen = 2
          /\ kind # "swapExactETHForTokens" => ethValue = 0
          /\ Set(p, EnterExchange([op[p] EXCEPT !.kind = kind, !.key = key,
                                      !.addrsOk = addrsOk, !.pathLen = pathLen,
                                      !.ethValue = ethValue, !.amountIn = amountIn]))

\* ------------------------------ SomniaExchangeService.get_amounts_out
\* Lines 149-151: whatever was raised inside the try block leaves as
\* ValueError("Cannot get amounts out - likely no liquidity for this path").
AmountsOutRaised(o, err) ==
    [o EXCEPT !.pc = "done", !.outcome = "NoLiquidityOrInvalidPath", !.caught = err]

\* Line 145: the addresses of the path are validated inside the try block.
StartAmountsOut(p) ==
    /\ op[p].pc = "idle"
    /\ UNCHANGED <<chain, env, db>>
    /\ \E pathOk \in BOOLEAN, pathLen \in 0..MaxPathLen :
          LET o == [op[p] EXCEPT !.kind = "amountsOut", !.addrsOk = pathOk,
                                 !.pathLen = pathLen]
          IN  /\ ~pathOk => pathLen > 0
              /\ Set(p, IF pathOk THEN [o EXCEPT !.pc = "ao_call"]
                         ELSE AmountsOutRaised(o, "InvalidAddress"))

\* Line 146: getAmountsOut(amount_in, path).call(). The router reverts on a
\* path of fewer than two tokens and on a path without a pool.
AmountsOutCall(p) ==
    /\ op[p].pc = "ao_call"
    /\ UNCHANGED <<chain, env, db>>
    /\ \/ Set(p, AmountsOutRaised(Called(op[p]), "RpcUnavailable"))
       \/ Set(p, AmountsOutRaised(Called(op[p]), "Reverted"))
       \/ /\ op[p].pathLen >= 2
          /\ Set(p, [Called(op[p]) EXCEPT !.pc = "done", !.outcome = "ok"])

\* ------------------------------------------------- POST /exchange/quote
\* The integers of a quote request and of the router's answer: 0, 1, and two
\* values above 2^64 (10^28 and 10^28 + 1).
QuoteValues == {W(0), W(1), Big(0), Big(MaxBigLow)}

\* The errors service.quote can raise: the contract call reverted, the node
\* was not reached, anything else.
QuoteErrors == {"execution reverted", "connection error", "unexpected error"}

\* Variant of QuoteResponseModel: the amount goes through a Decimal.
QuoteResponseRounded(quote) == DecRound(quote)

\* QuoteResponse(amount_b=quote): an int field keeps the integer it is given.
QuoteResponseModel(quote) == quote

\* Variant of QuoteFailed: the route answers with a generic message.
QuoteFailedHidden(o, err) ==
    [o EXCEPT !.pc = "done", !.outcome = "HTTPException", !.http = 500,
              !.detail = <<"Internal server error">>]

\* Lines 91-92: except Exception as e: raise HTTPException(status_code=500,
\* detail=f"Error getting quote: {str(e)}")
QuoteFailed(o, err) ==
    [o EXCEPT !.pc = "done", !.outcome = "HTTPException", !.http = 500,
              !.detail = <<"Error getting quote: ", err>>]

\* Lines 82-89: the route hands the three fields of the request to
\* service.quote, which hands them to the router's quote function.
StartQuote(p) ==
    /\ op[p].pc = "idle"
    /\ UNCHANGED <<chain, env, db>>
    /\ \E amount_a \in QuoteValues, reserve_a \in QuoteValues, reserve_b \in QuoteValues :
          Set(p, [op[p] EXCEPT !.kind = "quote", !.pc = "qt_call",
                               !.qReq = <<amount_a, reserve_a, reserve_b>>,
                               !.qCall = <<amount_a, reserve_a, reserve_b>>])

\* service.quote (lines 164-172) returns what the router's call returned or
\* raises what it raised; the route answers 200 with amount_b or 500.
QuoteCall(p) ==
    /\ op[p].pc = "qt_call"
    /\ UNCHANGED <<chain, env, db>>
    /\ \/ \E err \in QuoteErrors :
             Set(p, QuoteFailed([Called(op[p]) EXCEPT !.caught = err], err))
       \/ \E v \in QuoteValues :
             Set(p, [Called(op[p]) EXCEPT !.pc = "done", !.outcome = "ok", !.http = 200,
                                         !.qRet = v, !.amountB = QuoteResponseModel(v)])

\* ------------------------------------------------------------ environment
Running(o) == o.pc \notin {"idle", "done", "off"}

\* The gas price the node quotes moves while a request is under way.
NodeChange ==
    /\ env < MaxEnvSteps
    /\ \E p \in Procs : Running(op[p])
    /\ \E g \in GasPrices \ {chain.gasPrice} : chain' = [chain EXCEPT !.gasPrice = g]
    /\ env' = env + 1
    /\ UNCHANGED <<op, db>>

\* ---------------------------------------------------------- specifications
InitChain(b, t, g) ==
    [balance |-> [a \in Senders |-> IF a = "a1" THEN b ELSE W(0)],
     tokenBalance |-> [a \in Senders |-> IF a = "a1" THEN t ELSE W(0)],
     nonce |-> [a \in Senders |-> 0],
     gasPrice |-> g,
     allowance |-> [a \in Senders |-> 0],
     txs |-> <<>>]

\* One request against a node in any state.
Init ==
    /\ \E b \in Balances, t \in TokenBalances, g \in GasPrices, al \in 0..MaxAllowance :
          chain = [InitChain(b, t, g) EXCEPT !.allowance["a1"] = al]
    /\ op = [p \in Procs |-> IF p = "p1" THEN IdleOp ELSE OffOp]
    /\ env = 0
    /\ db = EmptyDb

Next ==
    \/ \E p \in Procs : StartSendEth(p)
    \/ \E p \in Procs : RouteEthBalance(p)
    \/ \E p \in Procs : RouteEthGasPrice(p)
    \/ \E p \in Procs : SendEthBalance(p)
    \/ \E p \in Procs : SendEthGasPrice(p)
    \/ \E p \in Procs : SendEthNonce(p)
    \/ \E p \in Procs : SendRawTransaction(p)
    \/ \E p \in Procs : RouteFinalGasPrice(p)
    \/ \E p \in Procs : StartSendToken(p)
    \/ \E p \in Procs : SendTokenDecimals(p)
    \/ \E p \in Procs : SendTokenSymbol(p)
    \/ \E p \in Procs : SendTokenBalanceOf(p)
    \/ \E p \in Procs : SendTokenGasPrice(p)
    \/ \E p \in Procs : SendTokenEthBalance(p)
    \/ \E p \in Procs : SendTokenNonce(p)
    \/ \E p \in Procs : QueryBalanceOf(p)
    \/ \E p \in Procs : QueryDecimals(p)
    \/ \E p \in Procs : QuerySymbol(p)
    \/ \E p \in Procs : QueryName(p)
    \/ \E p \in Procs : StartExchange(p)
    \/ \E p \in Procs : ExchangeNonce(p)
    \/ \E p \in Procs : ExchangeGasPrice(p)
    \/ \E p \in Procs : ExchangeBuild(p)
    \/ \E p \in Procs : ExchangeWait(p)
    \/ NodeChange

Spec == Init /\ [][Next]_vars

\* The read-only operations of the Account engine.
InitQuery ==
    /\ \E b \in {W(0), W(MaxBalance)}, t \in TokenBalances : chain = InitChain(b, t, 1)
    /\ op = [p \in Procs |-> IF p = "p1" THEN IdleOp ELSE OffOp]
    /\ env = 0
    /\ db = EmptyDb

NextQuery ==
    \/ \E p \in Procs : StartQuote(p)
    \/ \E p \in Procs : QuoteCall(p)
    \/ \E p \in Procs : StartCreateAccount(p)
    \/ \E p \in Procs : CreateBalance(p)
    \/ \E p \in Procs : CreateNonce(p)
    \/ \E p \in Procs : StartAmountsOut(p)
    \/ \E p \in Procs : AmountsOutCall(p)
    \/ \E p \in Procs : StartGetTokenBalance(p)
    \/ \E p \in Procs : StartIsContract(p)
    \/ \E p \in Procs : IsContractCode(p)
    \/ \E p \in Procs : StartGetPortfolio(p)
    \/ \E p \in Procs : PortfolioBalance(p)
    \/ \E p \in Procs : PortfolioNonce(p)
    \/ \E p \in Procs : StartGetTokenBalances(p)
    \/ \E p \in Procs : QueryBalanceOf(p)
    \/ \E p \in Procs : QueryDecimals(p)
    \/ \E p \in Procs : QuerySymbol(p)
    \/ \E p \in Procs : QueryName(p)

SpecQuery == InitQuery /\ [][NextQuery]_vars

\* Two transfers at once, from one wallet or from two: the event loop runs the
\* code of one request up to its next await, then the other's.
StartTransfer(p) ==
    /\ op[p].pc = "idle"
    /\ UNCHANGED <<chain, env, db>>
    /\ \E key \in {"k1", "k2"}, amount \in 0..1, gasPrice \in GasPrices :
          \/ BeginSendEth(p, "gateway", key, TRUE, FALSE, amount, 1, gasPrice)
          \/ BeginSendToken(p, "gateway", key, TRUE, "t1", FALSE, amount, 1, gasPrice)

InitConc ==
    /\ chain = [InitChain(W(MaxBalance), W(MaxTokenBalance), 1) EXCEPT
                    !.balance["a2"] = W(MaxBalance)]
    /\ op = [p \in Procs |-> IdleOp]
    /\ env = 0
    /\ db = EmptyDb

NextConc ==
    \/ \E p \in Procs : StartTransfer(p)
    \/ \E p \in Procs : SendEthBalance(p)
    \/ \E p \in Procs : SendEthNonce(p)
    \/ \E p \in Procs : SendTokenDecimals(p)
    \/ \E p \in Procs : SendTokenSymbol(p)
    \/ \E p \in Procs : SendTokenBalanceOf(p)
    \/ \E p \in Procs : SendTokenEthBalance(p)
    \/ \E p \in Procs : SendTokenNonce(p)
    \/ \E p \in Procs : SendRawTransaction(p)

SpecConc == InitConc /\ [][NextConc]_vars

\* ------------------------------------------------- the document store
\* The user ids of the requests and the addresses of the accounts created.
UserIds == {1, 2}
AccountAddresses == {"a1", "a2"}

\* find_many / find_one / count_documents with the filter {"user_id": u}.
WithUserId(collection, u) == {d \in collection : d.user_id = u}

\* insert_one: the document gets its _id.
Inserted(collection, doc) == collection \cup {doc}

\* A client sends a request when its last one was answered.
Ready(p) == op[p].pc \in {"idle", "done"} /\ db.requests < MaxRequests

\* The answer to a request of the store's routes.
Answer(p, kind, u, http, count) ==
    op' = [op EXCEPT ![p] = [IdleOp EXCEPT !.pc = "done", !.kind = kind, !.uid = u,
                                          !.http = http, !.count = count,
                                          !.outcome = IF http \in {200, 201} THEN "ok"
                                                      ELSE "HTTPException",
                                          !.afterDelete = u \in db.deleted]]

\* The collection create_user looks in for a user that exists already
\* (line 33: db.find_one("users", ...)).
ExistingUsers(d) == d.users

\* POST /users/create: 409 when the user is found; else the document is
\* inserted in "user" (line 48) and read back from "user" (line 51).
CreateUser(p) ==
    /\ Ready(p)
    /\ UNCHANGED <<chain, env>>
    /\ \E u \in UserIds :
          IF WithUserId(ExistingUsers(db), u) # {}
          THEN /\ Answer(p, "createUser", u, 409, 0)
               /\ db' = [db EXCEPT !.requests = @ + 1]
          ELSE /\ Answer(p, "createUser", u, 200, 0)
               /\ db' = [db EXCEPT
                            !.user = Inserted(@, [id |-> db.nextId, user_id |-> u]),
                            !.nextId = @ + 1, !.requests = @ + 1,
                            !.deleted = @ \ {u}]

\* POST /account/create, after service.create_account has returned: the
\* account is stored under the request's user_id unless its address is stored
\* already (lines 57-67).
CreateAccountFor(p) ==
    /\ Ready(p)
    /\ UNCHANGED <<chain, env>>
    /\ \E u \in UserIds, a \in AccountAddresses :
          /\ Answer(p, "createAccountFor", u, 200, 0)
          /\ db' = [db EXCEPT
                       !.accounts = IF \E d \in @ : d.address = a THEN @
                                    ELSE Inserted(@, [id |-> db.nextId, user_id |-> u,
                                                      address |-> a]),
                       !.nextId = @ + 1, !.requests = @ + 1,
                       !.deleted = @ \ {u}]

\* delete_user_with_accounts: the accounts of the user are deleted from
\* "accounts" (line 61), the user from "users" (line 64).
DeleteUserWithAccounts(p) ==
    /\ Ready(p)
    /\ UNCHANGED <<chain, env>>
    /\ \E u \in UserIds :
          /\ Answer(p, "deleteUserWithAccounts", u, 200,
                    Cardinality(WithUserId(db.accounts, u)))
          /\ db' = [db EXCEPT
                       !.accounts = @ \ WithUserId(@, u),
                       !.users = @ \ WithUserId(@, u),
                       !.requests = @ + 1,
                       !.deleted = IF WithUserId(db.user, u) # {}
                                      /\ WithUserId(db.accounts, u) # {}
                                   THEN @ \cup {u} ELSE @]

\* GET /users/{user_id}: the user is looked for in "user" (line 78).
GetUser(p) ==
    /\ Ready(p)
    /\ UNCHANGED <<chain, env>>
    /\ \E u \in UserIds :
          /\ Answer(p, "getUser", u, IF WithUserId(db.user, u) # {} THEN 200 ELSE 404, 0)
          /\ db' = [db EXCEPT !.requests = @ + 1]

\* GET /account/list_user_accounts/{user_id}: the accounts are those of the
\* user (line 231), total_count is db.count_documents("accounts") (line 237).
ListUserAccounts(p) ==
    /\ Ready(p)
    /\ UNCHANGED <<chain, env>>
    /\ \E u \in UserIds :
          /\ Answer(p, "listUserAccounts", u, 200, Cardinality(db.accounts))
          /\ db' = [db EXCEPT !.requests = @ + 1]

\* The keyword parameters MongoDBManager.find_one takes after self.
FindOneParameters == {"collection_name", "filter_dict", "projection"}

\* The highest gateway_id stored, 0 when there is no gateway: the document
\* find_one("gateway", {}, sort=[("gateway_id", -1)]) would return.
LastGatewayId(d) ==
    IF d.gateways = {} THEN 0
    ELSE CHOOSE n \in {g.gateway_id : g \in d.gateways} :
             \A g \in d.gateways : g.gateway_id <= n

\* POST /gateway/create.  The handler has no await: it runs to its answer in
\* one step of the event loop.  It calls find_one with the keyword sort, which
\* find_one does not take: the call raises TypeError, the except clause of
\* lines 195-196 answers 500 and insert_one (line 191) is not reached.
CreateGateway(p) ==
    /\ Ready(p)
    /\ UNCHANGED <<chain, env>>
    /\ IF "sort" \in FindOneParameters
       THEN /\ Answer(p, "createGateway", LastGatewayId(db) + 1, 201, 0)
            /\ db' = [db EXCEPT !.gateways =
                          Inserted(@, [id |-> db.nextId,
                                       gateway_id |-> LastGatewayId(db) + 1]),
                                !.nextId = @ + 1, !.requests = @ + 1]
       ELSE /\ Answer(p, "createGateway", 0, 500, 0)
            /\ db' = [db EXCEPT !.requests = @ + 1]

\* dict.get(key): the value under the key, None when the key is absent.
Get(dict, key) == IF key \in DOMAIN dict THEN dict[key] ELSE NONE

\* The token data authenticate_telegram signs for the user (lines 146-150).
TokenData(u) ==
    [user_id |-> u, username |-> "username", first_name |-> "first_name"]

\* create_access_token: the data with exp and iat added, signed with
\* SECRET_KEY.  verify_token decodes with the same key and algorithm, so the
\* payload read back is the payload signed; the token is modelled as its
\* payload.
create_access_token(data) ==
    [k \in DOMAIN data \cup {"exp", "iat"} |->
        IF k \in DOMAIN data THEN data[k] ELSE k]

\* get_telegram_user_id_from_token, for a token that verify_token accepted.
get_telegram_user_id_from_token(token) == Get(token, "telegram_id")

\* db.find_one("user", {"telegram_id": telegram_id}): the documents whose
\* field telegram_id has that value.
WithTelegramId(collection, t) ==
    {d \in collection : Get(d, "telegram_id") = t}

\* POST /auth/telegram, BOT_TOKEN being configured: 401 when the hash does
\* not verify or auth_date is older than 24 hours; else the user is looked for
\* in "user" by user_id and inserted when absent (updated in its name fields
\* when present), and the token of TokenData is returned.
AuthenticateTelegram(p) ==
    /\ Ready(p)
    /\ UNCHANGED <<chain, env>>
    /\ \E u \in UserIds, hashOk \in BOOLEAN, dateOk \in BOOLEAN :
          IF ~hashOk \/ ~dateOk
          THEN /\ Answer(p, "authenticateTelegram", u, 401, 0)
               /\ db' = [db EXCEPT !.requests = @ + 1]
          ELSE /\ op' = [op EXCEPT ![p] =
                            [IdleOp EXCEPT !.pc = "done",
                                           !.kind = "authenticateTelegram",
                                           !.uid = u, !.http = 200, !.outcome = "ok",
                                           !.jwt = create_access_token(TokenData(u))]]
               /\ db' = IF WithUserId(db.user, u) # {}
                        THEN [db EXCEPT !.requests = @ + 1]
                        ELSE [db EXCEPT
                                 !.user = Inserted(@, [id |-> db.nextId, user_id |-> u]),
                                 !.nextId = @ + 1, !.requests = @ + 1,
                                 !.deleted = @ \ {u}]

\* The answer of GET /auth/verify to a token: 401 when verify_token finds it
\* expired or the payload has no telegram_id, 404 when no user is found, else
\* 200 with the user's user_id.
VerifyAnswer(token, expired, d) ==
    IF expired \/ get_telegram_user_id_from_token(token) = NONE
    THEN [http |-> 401, user_id |-> NONE]
    ELSE LET found == WithTelegramId(d.user, get_telegram_user_id_from_token(token))
         IN  IF found = {} THEN [http |-> 404, user_id |-> NONE]
             ELSE [http |-> 200, user_id |-> Get(CHOOSE x \in found : TRUE, "user_id")]

\* GET /auth/verify with "Authorization: Bearer <token>", the token being the
\* one the client's login has just returned; expired is whether the token's
\* exp has passed when the request arrives.
VerifyToken(p) ==
    /\ Ready(p)
    /\ op[p].pc = "done" /\ op[p].kind = "authenticateTelegram" /\ op[p].http = 200
    /\ UNCHANGED <<chain, env>>
    /\ \E expired \in BOOLEAN :
          LET a == VerifyAnswer(op[p].jwt, expired, db)
          IN  /\ op' = [op EXCEPT ![p] =
                           [IdleOp EXCEPT !.pc = "done", !.kind = "verifyToken",
                                          !.uid = a.user_id, !.http = a.http,
                                          !.outcome = IF a.http = 200 THEN "ok"
                                                      ELSE "HTTPException",
                                          !.jwt = op[p].jwt, !.expired = expired]]
              /\ db' = [db EXCEPT !.requests = @ + 1]

InitStore ==
    /\ \E g \in GasPrices : chain = InitChain(W(0), W(0), g)
    /\ op = [p \in Procs |-> IF p = "p1" THEN IdleOp ELSE OffOp]
    /\ env = 0
    /\ db = EmptyDb

NextStore ==
    \/ \E p \in Procs : CreateUser(p)
    \/ \E p \in Procs : CreateAccountFor(p)
    \/ \E p \in Procs : DeleteUserWithAccounts(p)
    \/ \E p \in Procs : GetUser(p)
    \/ \E p \in Procs : ListUserAccounts(p)
    \/ \E p \in Procs : CreateGateway(p)
    \/ \E p \in Procs : AuthenticateTelegram(p)
    \/ \E p \in Procs : VerifyToken(p)

SpecStore == InitStore /\ [][NextStore]_vars

\* ------------------------------------------- wait_for_transaction_receipt
\* AccountService.wait_for_transaction_receipt(tx_hash, timeout=120) and the
\* Exchange operations, after send_raw_transaction, await the node's
\* wait_for_transaction_receipt: the receipt is asked for again and again, with
\* a sleep in between, under a timer of 120 seconds that raises TimeExhausted.
\* MaxPolls is the number of polls the timer leaves room for.
Waiters == {"waitForReceipt"} \cup ExchangeKinds

\* The transaction has a receipt.
Mined(tx) == \E i \in 1..Len(chain.txs) : chain.txs[i].tx = tx

\* Variant of TimedOut: a wait without a timer.
NeverTimedOut(polls) == FALSE

\* The timer of the wait has run out.
TimedOut(polls) == polls >= MaxPolls

\* The wait begins: the transaction was taken by the node and is not mined yet.
StartWait(p) ==
    /\ op[p].pc = "idle"
    /\ UNCHANGED <<chain, env, db>>
    /\ \E kind \in Waiters, amountIn \in 0..MaxAllowance :
          Set(p, [op[p] EXCEPT
                     !.kind = kind, !.pc = "w_wait", !.amountIn = amountIn,
                     !.stage = "broadcast",
                     !.tx = [from |-> "a1", nonce |-> chain.nonce["a1"], value |-> W(0),
                             gas |-> GAS_LIMIT, gasPrice |-> chain.gasPrice,
                             kind |-> kind, tokenAmount |-> W(amountIn),
                             pathLen |-> 2]])

\* The node puts the transaction in a block; nothing obliges it to.
Mine ==
    /\ UNCHANGED <<op, env, db>>
    /\ \E p \in Procs :
          /\ op[p].pc = "w_wait"
          /\ ~Mined(op[p].tx)
          /\ \E st \in {0, 1} : chain' = Included(op[p].tx, st)

\* A poll that finds no receipt: the wait sleeps and asks again.
WaitPoll(p) ==
    /\ op[p].pc = "w_wait"
    /\ ~Mined(op[p].tx)
    /\ ~TimedOut(op[p].polls)
    /\ UNCHANGED <<chain, env, db>>
    /\ Set(p, IF op[p].polls < MaxPolls
               THEN [Called(op[p]) EXCEPT !.polls = @ + 1]
               ELSE op[p])

\* A poll that finds the receipt: it is returned, whatever its status.
WaitReceipt(p) ==
    /\ op[p].pc = "w_wait"
    /\ Mined(op[p].tx)
    /\ UNCHANGED <<chain, env, db>>
    /\ Set(p, [Called(op[p]) EXCEPT
                  !.pc = "done", !.outcome = "ok", !.returned = "receipt",
                  !.receipt = chain.txs[ReceiptOf(op[p].tx)].status])

\* The timer runs out: TimeExhausted is raised, and the except clause of the
\* operation raises it again.
WaitTimeout(p) ==
    /\ op[p].pc = "w_wait"
    /\ TimedOut(op[p].polls)
    /\ UNCHANGED <<chain, env, db>>
    /\ Set(p, Failed(op[p], "TransactionTimeout"))

\* A poll the node does not answer.
WaitRpcFails(p) ==
    /\ op[p].pc = "w_wait"
    /\ ~TimedOut(op[p].polls)
    /\ UNCHANGED <<chain, env, db>>
    /\ Set(p, Failed(Called(op[p]), "RpcUnavailable"))

InitWait ==
    /\ \E g \in GasPrices, al \in 0..MaxAllowance :
          chain = [InitChain(Big(0), W(0), g) EXCEPT !.allowance["a1"] = al]
    /\ op = [p \in Procs |-> IF p = "p1" THEN IdleOp ELSE OffOp]
    /\ env = 0
    /\ db = EmptyDb

\* The steps of the waiting coroutine and of its timer.
WaitStep == \E p \in Procs : WaitPoll(p) \/ WaitReceipt(p) \/ WaitTimeout(p)

NextWait ==
    \/ \E p \in Procs : StartWait(p)
    \/ Mine
    \/ \E p \in Procs : WaitPoll(p)
    \/ \E p \in Procs : WaitReceipt(p)
    \/ \E p \in Procs : WaitTimeout(p)
    \/ \E p \in Procs : WaitRpcFails(p)

\* The event loop runs a coroutine whose sleep is over and fires a timer that
\* is due; the node owes nothing.
SpecWait == InitWait /\ [][NextWait]_vars /\ WF_vars(WaitStep)

\* ================================================================= claims
Transfers == {"sendNative", "sendToken"}
StateChanging == Transfers \cup ExchangeKinds
InvalidInputs == {"InvalidKeyFormat", "InvalidAddress", "InvalidSwapPath"}

\* What a MAX request read: the balance in wei, less the gas at the price the
\* route resolved.
Sendable(o) == WSub(o.rBalanceWei, W(GasCost(o.gasLimit, o.rGasPrice)))

\* C1: sendNative with amount MAX, once the route has the balance and the gas
\* price: the transaction that is broadcast carries exactly
\* balance - gasLimit*gasPrice wei, and when that value is not positive the
\* request ends with InsufficientFundsForGas and broadcasts nothing.
C1_MaxAmountIsBalanceLessGas ==
    \A p \in Procs :
        LET o == op[p]
        IN  (o.kind = "sendNative" /\ o.amountMax /\ o.rGasPrice # 0) =>
                /\ o.sent > 0 => o.tx.value = Sendable(o)
                /\ ~WLess(W(0), Sendable(o)) =>
                       /\ o.sent = 0
                       /\ o.pc = "done" /\ o.outcome = "InsufficientFundsForGas"

\* C2: sendNative with an explicit amount passes validation only when
\* amount >= 0 and balance >= amount + gasLimit*gasPrice; a request with well
\* formed key and recipient whose amount is negative ends with
\* InsufficientBalance (or with the node out of reach), never later.
C2_ExplicitAmountIsValidated ==
    \A p \in Procs :
        LET o == op[p]
        IN  (o.kind = "sendNative" /\ ~o.amountMax) =>
                /\ o.stage # "none" =>
                       /\ o.amount >= 0
                       /\ WLeq(WAdd(W(o.amount), W(GasCost(o.gasLimit, o.sGasPrice))),
                               o.sBalance)
                /\ (o.amount < 0 /\ o.pc = "done" /\ o.toOk /\ o.route = "gateway"
                        /\ o.key # BadKey) =>
                       o.outcome \in {"InsufficientBalance", "RpcUnavailable"}

\* C3: a sendToken request broadcasts only a transfer whose amount, in the
\* token's base units, the token balance it read covers, and only when the
\* native balance it read covers gasLimit*gasPrice.
C3_TokenTransferNeedsBothBalances ==
    \A p \in Procs :
        LET o == op[p]
        IN  (o.kind = "sendToken" /\ o.sent > 0) =>
                /\ o.tx.tokenAmount = o.amountWei
                /\ WLeq(o.amountWei, o.tokBalance)
                /\ WLeq(W(GasCost(o.gasLimit, o.tx.gasPrice)), o.sBalance)

\* A token transfer went out with the whole token balance and with a native
\* balance that pays the gas and no more.
C3_Witness ==
    \E p \in Procs :
        /\ op[p].kind = "sendToken" /\ op[p].sent = 1
        /\ op[p].tx.tokenAmount = op[p].tokBalance
        /\ WLess(W(0), op[p].tx.tokenAmount)
        /\ op[p].sBalance = W(GasCost(op[p].gasLimit, op[p].tx.gasPrice))

\* C4: a swap, of any of the three kinds, whose path has fewer than two
\* addresses (its other addresses being well formed) ends with InvalidSwapPath
\* and has made no call to the node.
C4_ShortPathFailsBeforeAnyCall ==
    \A p \in Procs :
        LET o == op[p]
        IN  (o.kind \in SwapKinds /\ o.pathLen < 2 /\ o.addrsOk) =>
                /\ o.rpc = 0
                /\ o.pc = "done" /\ o.outcome = "InvalidSwapPath"

\* C5: a state-changing request with a malformed key, a malformed address or
\* a short path makes no call to the node, and a request that ends with an
\* input-validation error has made none.  (A MAX transfer is left out: its
\* route reads the balance before the engine sees the request.)
C5_ValidationBeforeAnyCall ==
    \A p \in Procs :
        LET o == op[p]
            invalid == \/ o.key = BadKey
                       \/ ~o.toOk \/ ~o.addrsOk
                       \/ (o.kind = "sendToken" /\ o.token = "bad")
                       \/ (o.kind \in SwapKinds /\ o.pathLen < 2)
        IN  (o.kind \in StateChanging /\ ~o.amountMax) =>
                /\ invalid => o.rpc = 0
                /\ (o.pc = "done" /\ o.outcome \in InvalidInputs) => o.rpc = 0

\* C6: an Exchange operation whose transaction was mined with status 0 ends
\* with TransactionReverted: it never returns that receipt as its result.
C6_RevertedReceiptIsAnError ==
    \A p \in Procs :
        LET o == op[p]
        IN  (o.kind \in ExchangeKinds /\ o.sent > 0 /\ o.pc = "done"
                 /\ chain.txs[ReceiptOf(o.tx)].status = 0) =>
                (o.outcome # "ok" /\ o.receipt # 0)

\* The tokens of a request are distinct addresses: the letter case of an
\* address is no part of it.
DistinctTokens(tokens) ==
    \A i, j \in 1..Len(tokens) : i # j => Lower(tokens[i]) # Lower(tokens[j])

\* C7: getTokenBalances ends with a result whatever fails; given N distinct
\* token addresses of which k fail it returns N - k entries, the entries of
\* the tokens whose query succeeded.
C7_OneEntryPerTokenThatSucceeded ==
    \A p \in Procs :
        LET o == op[p]
            N == Len(o.tokens)
            k == N - Cardinality(o.succeeded)
        IN  (o.kind = "getTokenBalances" /\ o.pc = "done") =>
                /\ o.outcome = "ok"
                /\ DistinctTokens(o.tokens) =>
                       /\ Cardinality(o.result) = N - k
                       /\ o.result = {Lower(o.tokens[i]) : i \in o.succeeded}

\* Three distinct tokens were asked for, the query of one failed after a read
\* of the node, and two entries came back.
C7_Witness ==
    \E p \in Procs :
        /\ op[p].kind = "getTokenBalances" /\ op[p].pc = "done"
        /\ Len(op[p].tokens) = 3 /\ DistinctTokens(op[p].tokens)
        /\ Cardinality(op[p].succeeded) = 2 /\ Cardinality(op[p].result) = 2
        /\ op[p].rpc > 8

\* C8: two transfers at once.  Nothing keeps the second from reading the nonce
\* the first read: each is signed with the nonce it read, the node takes at
\* most one transaction per sender and nonce, and of two transfers signed
\* with one nonce of one sender at most one is broadcast.
C8_OneTransactionPerNonce ==
    /\ \A p \in Procs :
           op[p].stage \in {"signed", "broadcast"} =>
               /\ op[p].tx.nonce = op[p].nonce
               /\ op[p].tx.from = AddressOf(op[p].key)
    /\ \A i, j \in 1..Len(chain.txs) :
           (i # j /\ chain.txs[i].tx.from = chain.txs[j].tx.from) =>
               chain.txs[i].tx.nonce # chain.txs[j].tx.nonce
    /\ \A p, q \in Procs :
           (p # q /\ op[p].stage \in {"signed", "broadcast"}
                  /\ op[q].stage \in {"signed", "broadcast"}
                  /\ op[p].tx.from = op[q].tx.from
                  /\ op[p].tx.nonce = op[q].tx.nonce) =>
               /\ op[p].sent + op[q].sent <= 1
               /\ (op[p].sent = 1 /\ op[q].pc = "done") =>
                      op[q].outcome \in {"RpcError", "RpcUnavailable"}

\* Both transfers of one key were signed with one nonce before either was
\* sent; the node took the first and refused the second.
C8_Witness ==
    /\ op["p1"].key = op["p2"].key
    /\ op["p1"].stage = "broadcast" /\ op["p1"].sent = 1
    /\ op["p2"].stage = "signed" /\ op["p2"].pc = "done" /\ op["p2"].outcome = "RpcError"
    /\ op["p1"].nonce = op["p2"].nonce
    /\ op["p2"].attempts = 1

\* The requests that have broadcast, and how many transactions the node took.
Broadcasts == Cardinality({p \in Procs : op[p].sent = 1})

\* C9: a state-changing request calls send_raw_transaction at most once and
\* broadcasts at most one transaction, exactly one when it ends well; every
\* transaction of the node is the one broadcast of a request; and a request
\* that has ended, well or with an error, takes no further step.
C9_OneBroadcastNoRetry ==
    /\ [](\A p \in Procs :
              op[p].kind \in StateChanging =>
                  /\ op[p].attempts <= 1
                  /\ op[p].sent <= op[p].attempts
                  /\ op[p].outcome = "ok" => op[p].sent = 1
                  /\ op[p].pc = "done" => op[p].outcome # "none")
    /\ [](Len(chain.txs) = Broadcasts)
    /\ [][\A p \in Procs : op[p].pc = "done" => op'[p] = op[p]]_vars

\* An Exchange operation ended well after one broadcast, and a request whose
\* broadcast the node did not answer ended there.
C9_Witness ==
    \E p \in Procs :
        /\ op[p].kind \in ExchangeKinds /\ op[p].pc = "done"
        /\ op[p].outcome = "ok" /\ op[p].sent = 1 /\ op[p].attempts = 1
        /\ Len(chain.txs) = 1

StageRank(stage) ==
    IF stage = "none" THEN 0 ELSE IF stage = "validated" THEN 1
    ELSE IF stage = "signed" THEN 2 ELSE 3

\* What validation asks of a transfer, on what the request read.
TransferValid(o) ==
    /\ o.key # BadKey /\ o.toOk
    /\ IF o.kind = "sendNative"
       THEN WLeq(WAdd(o.amountWei, W(GasCost(o.gasLimit, o.sGasPrice))), o.sBalance)
       ELSE /\ o.token # "bad"
            /\ WLeq(o.amountWei, o.tokBalance)
            /\ WLeq(W(GasCost(o.gasLimit, o.sGasPrice)), o.sBalance)

\* C10: a transfer goes from Validated to Signed to Broadcast, one stage at a
\* time; a signed or broadcast transfer has passed every check; the hash is
\* returned in the step that broadcasts, and a transfer never waits for the
\* receipt.
C10_ValidatedSignedBroadcast ==
    /\ [](\A p \in Procs :
              op[p].kind \in Transfers =>
                  /\ op[p].stage # "none" => TransferValid(op[p])
                  /\ op[p].sent > 0 <=> op[p].stage = "broadcast"
                  /\ op[p].returned = "hash" <=> op[p].stage = "broadcast"
                  /\ op[p].pc # "x_wait" /\ op[p].receipt = -1)
    /\ [][\A p \in Procs :
              (op'[p].kind \in Transfers /\ op'[p].stage # op[p].stage) =>
                  StageRank(op'[p].stage) = StageRank(op[p].stage) + 1]_vars

\* A native transfer ended well: broadcast, the hash returned, no receipt.
C10_Witness ==
    \E p \in Procs :
        /\ op[p].kind = "sendNative" /\ op[p].pc = "done" /\ op[p].outcome = "ok"
        /\ op[p].stage = "broadcast" /\ op[p].returned = "hash"
        /\ op[p].receipt = -1 /\ op[p].rpc = 3

\* C11: for a valid address whose reads all succeed, getPortfolio returns the
\* aggregate of balance and nonce, and the wallet snapshot it embeds holds no
\* private key. The operation that has made its reads without an RPC failure
\* has not ended in an error.
C11_PortfolioReturnsAggregate ==
    \A p \in Procs :
        LET o == op[p]
        IN  (o.kind = "getPortfolio" /\ o.addrsOk /\ o.pc = "done"
                 /\ o.outcome # "RpcUnavailable")
            => /\ o.outcome = "ok"
               /\ o.account.private_key = PortfolioKey
               /\ o.account.balance = o.rBalance
               /\ o.account.nonce = o.nonce

\* C12: isContract never raises; it answers true exactly when getCode gave
\* code, and the only error it turns into the answer false is the failure of
\* the RPC read.
C12_IsContractDegradesOnlyRpcFailure ==
    \A p \in Procs :
        LET o == op[p]
        IN  (o.kind = "isContract" /\ o.pc = "done")
            => /\ o.outcome = "ok"
               /\ o.isContract <=> (o.caught = "none" /\ HasCode(o.owner))
               /\ o.caught \in {"none", "RpcUnavailable"}
               /\ o.caught = "RpcUnavailable" => o.rpc = 1

\* C13: getTokenBalance is all-or-nothing. When one of its four contract reads
\* fails, it fails with TokenQueryFailed and returns no TokenBalance; when it
\* returns one, all four reads were made and its balance is the raw balance
\* divided by 10^decimals, which is not negative.
C13_TokenBalanceAllOrNothing ==
    \A p \in Procs :
        LET o == op[p]
        IN  (o.kind = "getTokenBalance" /\ o.pc = "done")
            => /\ o.outcome \in {"ok", "TokenQueryFailed", "InvalidAddress"}
               /\ o.outcome # "ok" => o.tb = NoTokenBalance
               /\ o.outcome = "ok"
                    => /\ o.rpc = 4
                       /\ o.tb.decimals = o.decimals
                       /\ o.tb.balance = o.tokBalance
                       /\ ~WLess(o.tb.balance, W(0))

\* C14: amountsOut fails with NoLiquidityOrInvalidPath when the router call
\* reverts; a malformed address in the path is refused as InvalidAddress
\* before any network call and is not reported as a liquidity failure.
C14_MalformedPathIsNotALiquidityFailure ==
    \A p \in Procs :
        LET o == op[p]
        IN  (o.kind = "amountsOut" /\ o.pc = "done")
            => /\ o.caught = "Reverted" => o.outcome = "NoLiquidityOrInvalidPath"
               /\ ~o.addrsOk => (o.outcome = "InvalidAddress" /\ o.rpc = 0)

\* C15: the engine broadcasts no approve of its own in a swap or liquidity
\* call: the one transaction of the call is the call itself. A swap that
\* spends tokens succeeds only if the router's allowance, set by an approve
\* mined earlier, covers amountIn; when the approval was skipped the call ends
\* with the router's revert, not with success.
C15_SwapNeedsEarlierApprove ==
    \A p \in Procs :
        LET o == op[p]
        IN  (o.kind \in TokenSpending /\ o.pc = "done" /\ o.sent = 1)
            => LET r == chain.txs[ReceiptOf(o.tx)]
               IN  /\ \A i \in 1..Len(chain.txs) : chain.txs[i].tx.kind = o.kind
                   /\ r.status = 1 => r.allowed >= o.amountIn
                   /\ r.allowed < o.amountIn => o.outcome # "ok"

\* C16: getTokenBalances swallows only the failure of a single token's query;
\* a malformed owner address is another class of error and makes the call fail
\* with the input-validation error, not return an empty result.
C16_MalformedOwnerIsRaised ==
    \A p \in Procs :
        LET o == op[p]
        IN  (o.kind = "getTokenBalances" /\ ~o.addrsOk /\ Len(o.tokens) > 0
                 /\ (\A i \in 1..Len(o.tokens) : o.tokens[i] # "bad")
                 /\ o.pc = "done")
            => (o.outcome = "InvalidAddress" /\ o.rpc = 0)

\* What a transfer of the address finds when it runs alone from InitConc.
AloneBalance(a) == W(MaxBalance)
AloneTokenBalance(a) == IF a = "a1" THEN W(MaxTokenBalance) ELSE W(0)

\* The two requests are from different private keys (or q has made none).
Independent(p, q) ==
    p # q /\ op[p].kind # "none" /\ (op[q].kind = "none" \/ op[q].key # op[p].key)

C18_WaitTerminates ==
    /\ \A p \in Procs : (op[p].pc = "w_wait") ~> (op[p].pc = "done")
    /\ [](\A p \in Procs :
             (op[p].kind \in Waiters /\ op[p].pc = "done") =>
                 /\ op[p].outcome \in {"ok", "TransactionTimeout", "RpcUnavailable"}
                 /\ op[p].outcome = "ok" =>
                        /\ Mined(op[p].tx)
                        /\ op[p].receipt = chain.txs[ReceiptOf(op[p].tx)].status
                 /\ op[p].outcome = "TransactionTimeout" =>
                        op[p].polls = MaxPolls)

\* The transaction was never mined and the wait ended with TransactionTimeout
\* after the last poll.
C18_Witness ==
    \E p \in Procs :
        /\ op[p].kind \in Waiters /\ op[p].pc = "done"
        /\ op[p].outcome = "TransactionTimeout"
        /\ ~Mined(op[p].tx)
        /\ op[p].polls = MaxPolls

\* C19: createAccount returns a mnemonic exactly when no importKey was
\* supplied. With an importKey the wallet is the one of that key; without, the
\* wallet is the one derived from the fresh mnemonic. In both cases the
\* derivation is over before the balance and the nonce are read, and the
\* returned snapshot holds what those reads gave for the derived address.
C19_MnemonicIffNoImportKey ==
    \A p \in Procs :
        LET o == op[p]
            a == AddressOf(o.key)
        IN  o.kind = "createAccount" =>
              /\ o.pc \in {"ca_balance", "ca_nonce"} =>
                    /\ o.key \in {"k1", "k2"}
                    /\ o.account = NoAccount
                    /\ (o.pc = "ca_balance") = (o.rpc = 0)
              /\ (o.pc = "done" /\ o.outcome = "ok") =>
                    /\ (o.mnemonic = "none") <=> (o.importKey # "none")
                    /\ o.importKey # "none" => o.account.private_key = o.importKey
                    /\ o.importKey = "none" =>
                           /\ o.mnemonic \in Mnemonics
                           /\ o.account.private_key = KeyOfMnemonic(o.mnemonic)
                    /\ Lower(o.account.address) = a
                    /\ o.rpc = 2
                    /\ o.account.balance = wei_to_eth(chain.balance[a])
                    /\ o.account.nonce = chain.nonce[a]

\* An account was generated: the result holds the mnemonic and the wallet
\* derived from it, with a balance read from the chain.
C19_Witness ==
    \E p \in Procs :
        /\ op[p].kind = "createAccount" /\ op[p].pc = "done" /\ op[p].outcome = "ok"
        /\ op[p].importKey = "none"
        /\ op[p].mnemonic = "m1"
        /\ op[p].account.private_key = "k1"
        /\ op[p].account.balance = W(MaxBalance)

\* C20: every address an engine returns in a result (the wallet address of
\* createAccount, the token contract address of a TokenBalance) is in the
\* mixed-case EIP-55 checksum form and equals the input address
\* case-insensitively.
C20_ReturnedAddressesAreChecksummed ==
    \A p \in Procs :
        LET o == op[p]
        IN  (o.pc = "done" /\ o.outcome = "ok") =>
              /\ o.kind = "createAccount" =>
                    /\ Lower(o.account.address) = AddressOf(o.key)
                    /\ o.account.address = to_checksum_address(o.account.address)
              /\ o.kind = "getTokenBalance" =>
                    /\ Lower(o.tb.token_address) = Lower(o.token)
                    /\ o.tb.token_address = to_checksum_address(o.tb.token_address)

\* C21: swapExactETHForTokens attaches exactly the caller's nativeValue as the
\* value of its transaction, whatever amountIn the request holds; every other
\* state-changing Exchange operation sends a transaction with no value.
C21_OnlyEthSwapCarriesValue ==
    /\ \A p \in Procs :
          LET o == op[p]
          IN  (o.kind \in ExchangeKinds /\ o.stage \in {"signed", "broadcast"}) =>
                /\ o.kind = "swapExactETHForTokens" => o.tx.value = W(o.ethValue)
                /\ o.kind # "swapExactETHForTokens" => o.tx.value = W(0)
    /\ \A i \in 1..Len(chain.txs) :
          (chain.txs[i].tx.kind \in ExchangeKinds
               /\ chain.txs[i].tx.kind # "swapExactETHForTokens") =>
              chain.txs[i].tx.value = W(0)

\* An ETH swap whose request holds amountIn 0 was broadcast with value 1.
C21_Witness ==
    \E p \in Procs :
        /\ op[p].kind = "swapExactETHForTokens" /\ op[p].sent = 1
        /\ op[p].ethValue = 1 /\ op[p].amountIn = 0
        /\ chain.txs[ReceiptOf(op[p].tx)].tx.value = W(1)

\* C22: quote is a pass-through. The endpoint calls the engine once, with the
\* three integers of the request unchanged, and answers with amount_b equal to
\* the value the router returned, 0 and values above 2^64 included.
C22_QuoteIsPassThrough ==
    \A p \in Procs :
        LET o == op[p]
        IN  o.kind = "quote" =>
              /\ o.qCall = o.qReq
              /\ o.pc = "qt_call" => o.rpc = 0
              /\ o.pc = "done" => o.rpc = 1
              /\ (o.pc = "done" /\ o.outcome = "ok") =>
                    (o.http = 200 /\ o.amountB = o.qRet)

\* The router answered 10^28 + 1 to a request of three different integers, and
\* the endpoint returned that value.
C22_Witness ==
    \E p \in Procs :
        /\ op[p].kind = "quote" /\ op[p].pc = "done" /\ op[p].http = 200
        /\ op[p].qReq = <<W(1), Big(0), W(0)>>
        /\ op[p].qRet = Big(MaxBigLow)
        /\ op[p].amountB = Big(MaxBigLow)

\* C23: whenever the engine's quote call fails, the endpoint answers 500 with
\* a detail that holds "Error getting quote" followed by the original message;
\* it answers 200 only when the call returned.
C23_QuoteFailureIs500WithMessage ==
    \A p \in Procs :
        LET o == op[p]
        IN  (o.kind = "quote" /\ o.pc = "done") =>
              /\ o.caught # "none" =>
                    /\ o.http = 500
                    /\ o.detail = <<"Error getting quote: ", o.caught>>
              /\ o.http = 200 <=> o.caught = "none"

\* The router's call reverted and the endpoint answered 500 with the message.
C23_Witness ==
    \E p \in Procs :
        /\ op[p].kind = "quote" /\ op[p].pc = "done"
        /\ op[p].caught = "execution reverted"
        /\ op[p].http = 500
        /\ op[p].detail[2] = "execution reverted"

\* C24: after the cascading deletion of a user, who was created through the
\* user-creation endpoint and had accounts, has completed, the user can no
\* longer be retrieved and the listing of the user's accounts reports
\* total_count = 0, whatever other users and accounts the store holds.
C24_DeletedUserIsGone ==
    \A p \in Procs :
        LET o == op[p]
        IN  (o.pc = "done" /\ o.afterDelete) =>
              /\ o.kind = "getUser" => o.http = 404
              /\ o.kind = "listUserAccounts" => (o.http = 200 /\ o.count = 0)

\* C25: sendToken with amount MAX: the raw amount in the transfer that is
\* broadcast equals the sender's raw balanceOf value exactly (the conversion
\* of the raw balance to token units and back is the identity).
C25_MaxTokenAmountIsRawBalance ==
    \A p \in Procs :
        LET o == op[p]
        IN  (o.kind = "sendToken" /\ o.amountMax /\ o.sent > 0) =>
              o.tx.tokenAmount = o.tokBalance

\* C26: in MAX mode with gasPrice omitted, the gas price and the balance from
\* which the sendable amount was computed are the ones the transaction is
\* checked and built with: the broadcast transaction has the gas price the
\* amount was computed with, and its value plus gasLimit * gasPrice equals the
\* sender's balance, even when the node's quote changes between the reads.
\* (Balances below 10^28 wei, which the conversions keep exact.)
C26_MaxUsesOneGasPrice ==
    \A p \in Procs :
        LET o == op[p]
        IN  (o.kind = "sendNative" /\ o.amountMax /\ o.gasPriceReq = NONE
                 /\ o.rBalanceWei.hi = 0 /\ o.sent > 0) =>
              /\ o.tx.gasPrice = o.rGasPrice
              /\ WAdd(o.tx.value, W(GasCost(o.tx.gas, o.tx.gasPrice))) = o.sBalance

\* The status the send-eth and send-token routes answer with: the body of the
\* route is in a try whose handler, except Exception, turns whatever was
\* raised in it, an HTTPException(400) included, into HTTPException(500).
RouteStatus(o) == IF o.outcome = "ok" THEN 200 ELSE 500

\* C27: a send-eth request with amount MAX whose balance does not exceed the
\* gas cost, and a send-token request with amount MAX whose token balance is
\* zero, are answered with status 400, and no transaction is broadcast.
C27_NothingToSendIs400 ==
    \A p \in Procs :
        LET o == op[p]
        IN  (o.kind \in Transfers /\ o.amountMax /\ o.pc = "done"
                 /\ o.outcome \in {"InsufficientFundsForGas", "NoTokens"}) =>
              /\ RouteStatus(o) = 400
              /\ o.sent = 0
              /\ Len(chain.txs) = 0

\* C28: after any sequence of create_user calls the store holds at most one
\* user record per user_id, in the collection the users are read from.
C28_OneUserPerUserId ==
    \A u \in UserIds : Cardinality(WithUserId(db.user, u)) <= 1

C30_LoginTokenIsVerified ==
    \A p \in Procs :
        LET o == op[p]
        IN  (o.pc = "done" /\ o.kind = "verifyToken" /\ ~o.expired) =>
              (o.http = 200 /\ o.uid = Get(o.jwt, "user_id"))

====
